---- MODULE Spec2Model ----
(***************************************************************************)
(* each_cons: a sliding-window iterator adapter (src/src/lib.rs), and the  *)
(* run-grouping adapter described in spec.md section 4.2.                  *)
(*                                                                         *)
(* Option<T> is modelled as a sequence of at most one element:             *)
(*   None == <<>>,  Some(x) == <<x>>.                                      *)
(* An iterator is a record [script, cursor]: script is the sequence of     *)
(* results its next() gives (Some(item) or None, so a source that is not   *)
(* fused can yield items after a None), cursor is how many of them have    *)
(* been taken. Past the end of its script an iterator gives None forever.  *)
(* Rc<Item> is modelled by the item it points to.                          *)
(***************************************************************************)
EXTENDS Integers, Sequences, FiniteSets

VARIABLES
    input,    \* the iterator handed to the constructor
    size,     \* the window size handed to the constructor
    build,    \* "debug": overflow checks on; "release": usize arithmetic wraps
    pc,       \* "start" | "ready" | "panicked" | "group"
    panic,    \* the panic message when pc = "panicked", "" otherwise
    flavor,   \* which entry point built the adapter: "" | "function" | "method"
    cons,     \* Option<Cons>: Some([slice, prevs, iter]) once constructed
    rets,     \* what each call of Cons::next returned so far, in order
    backing,  \* run grouping: the backing slice
    rest,     \* run grouping: start (0-based) of the remaining range
    runs      \* run grouping: what each call of next returned so far

vars == <<input, size, build, pc, panic, flavor, cons, rets, backing, rest, runs>>

\* ------------------------------------------------------------------ bounds

MaxLen == 4
MaxVal == 2
MaxSlice == 3
MaxCalls == 5
MaxGroupLen == 5
UsizeBits == 16

Vals == 1..MaxVal

\* ------------------------------------------------------------------ Option

None == <<>>
Some(x) == <<x>>
IsSome(o) == Len(o) = 1
Unwrap(o) == o[1]

\* ------------------------------------------------------------------ source

SeqsUpTo(S, n) == UNION {[1..k -> S] : k \in 0..n}

Slots == {None} \cup {Some(v) : v \in Vals}

\* Iterator::next of the source, as called at lib.rs:78 and lib.rs:95.
Iterator_next(iter) ==
    IF iter.cursor < Len(iter.script)
    THEN [item |-> iter.script[iter.cursor + 1],
          iter |-> [iter EXCEPT !.cursor = iter.cursor + 1]]
    ELSE [item |-> None, iter |-> iter]

\* ------------------------------------------------------------------ Cons::new

UsizeModulus == 2 ^ UsizeBits
IsizeMax == 2 ^ (UsizeBits - 1) - 1
RcBytes == UsizeBits \div 8

UsizeSubSaturating(a, b) == [panic |-> "", v |-> IF a >= b THEN a - b ELSE 0]

\* usize subtraction `slice - 1` (lib.rs:75): a panic with overflow checks,
\* a wrap-around without them.
UsizeSub(a, b) ==
    IF a < b /\ build = "debug"
    THEN [panic |-> "attempt to subtract with overflow", v |-> 0]
    ELSE [panic |-> "", v |-> (a - b) % UsizeModulus]

\* VecDeque::with_capacity (lib.rs:75) panics when the allocation would
\* exceed isize::MAX bytes.
CapacityOverflow(cap) == cap * RcBytes > IsizeMax

RECURSIVE NewLoop_no_break(_, _, _)
NewLoop_no_break(iter, expected_prevs, k) ==
    IF k = 0
    THEN [finished |-> TRUE, iter |-> iter, expected_prevs |-> expected_prevs]
    ELSE LET r == Iterator_next(iter) IN
         IF IsSome(r.item)
         THEN NewLoop_no_break(r.iter, Append(expected_prevs, Unwrap(r.item)),
                               k - 1)
         ELSE [NewLoop_no_break(r.iter, expected_prevs, k - 1)
                  EXCEPT !.finished = FALSE]

RECURSIVE NewLoop(_, _, _)
\* for _ in 0..(slice - 1) { ... } of Cons::new; k iterations are left.
NewLoop(iter, expected_prevs, k) ==
    IF k = 0
    THEN [finished |-> TRUE, iter |-> iter, expected_prevs |-> expected_prevs]
    ELSE LET r == Iterator_next(iter) IN
         IF IsSome(r.item)
         THEN NewLoop(r.iter, Append(expected_prevs, Unwrap(r.item)), k - 1)
         ELSE [finished |-> FALSE, iter |-> r.iter,
               expected_prevs |-> expected_prevs]

NewPrevsAlwaysSome(finished, expected_prevs) == Some(expected_prevs)

\* let prevs = if finished { Some(expected_prevs) } else { None };
NewPrevs(finished, expected_prevs) ==
    IF finished THEN Some(expected_prevs) ELSE None

Panicked(msg) == [panic |-> msg, cons |-> None]

Cons_new_one_more(iter, slice) ==
    LET n == UsizeSub(slice, 1) IN
    IF n.panic # "" THEN Panicked(n.panic)
    ELSE IF CapacityOverflow(n.v) THEN Panicked("capacity overflow")
    ELSE LET l == NewLoop(iter, <<>>, n.v + 1) IN
         [panic |-> "",
          cons  |-> Some([slice |-> slice,
                          prevs |-> NewPrevs(l.finished, l.expected_prevs),
                          iter  |-> l.iter])]

Cons_new(iter, slice) ==
    LET n == UsizeSub(slice, 1) IN
    IF n.panic # "" THEN Panicked(n.panic)
    ELSE IF CapacityOverflow(n.v) THEN Panicked("capacity overflow")
    ELSE LET l == NewLoop(iter, <<>>, n.v) IN
         [panic |-> "",
          cons  |-> Some([slice |-> slice,
                          prevs |-> NewPrevs(l.finished, l.expected_prevs),
                          iter  |-> l.iter])]

each_cons_off_by_one(slice, iter) == Cons_new(iter, slice + 1)

\* pub fn each_cons(slice, iter)
each_cons(slice, iter) == Cons_new(iter, slice)

\* impl ConsIterator for I: iter.each_cons(slice)
ConsIterator_each_cons(self, slice) == Cons_new(self, slice)

\* ------------------------------------------------------------------ Cons::next

RECURSIVE NextLoop(_, _, _, _, _)
\* for v in prevs { ... } of Cons::next, at element i of prevs.
NextLoop(prevs, i, first, rv, curr) ==
    IF i > Len(prevs)
    THEN [rv |-> rv, curr |-> curr]
    ELSE NextLoop(prevs, i + 1, FALSE,
                  Append(rv, prevs[i]),
                  IF first THEN curr ELSE Append(curr, prevs[i]))

Cons_next(c) ==
    IF IsSome(c.prevs)
    THEN LET r == Iterator_next(c.iter) IN
         IF IsSome(r.item)
         THEN LET new_rc == Unwrap(r.item)
                  l == NextLoop(Unwrap(c.prevs), 1, TRUE, <<>>, <<>>)
              IN [ret  |-> Some(Append(l.rv, new_rc)),
                  cons |-> [c EXCEPT !.prevs = Some(Append(l.curr, new_rc)),
                                     !.iter = r.iter]]
         ELSE [ret |-> None, cons |-> [c EXCEPT !.iter = r.iter]]
    ELSE [ret |-> None, cons |-> c]

\* ------------------------------------------------------------------ windowing

GroupIdle == backing = <<>> /\ rest = 0 /\ runs = <<>>

Init ==
    /\ input \in {[script |-> s, cursor |-> 0] : s \in SeqsUpTo(Slots, MaxLen)}
    /\ size \in 0..MaxSlice
    /\ build \in {"debug", "release"}
    /\ pc = "start"
    /\ panic = ""
    /\ flavor = ""
    /\ cons = None
    /\ rets = <<>>
    /\ GroupIdle

Constructed(r, f) ==
    /\ pc' = IF r.panic # "" THEN "panicked" ELSE "ready"
    /\ panic' = r.panic
    /\ cons' = r.cons
    /\ flavor' = f
    /\ UNCHANGED <<input, size, build, rets, backing, rest, runs>>

\* let mut i = each_cons(size, input);
CallFunction ==
    /\ pc = "start"
    /\ Constructed(each_cons(size, input), "function")

\* let mut i = input.each_cons(size);
CallMethod ==
    /\ pc = "start"
    /\ Constructed(ConsIterator_each_cons(input, size), "method")

\* i.next()
CallNext ==
    /\ pc = "ready"
    /\ Len(rets) < MaxCalls
    /\ LET r == Cons_next(Unwrap(cons)) IN
        /\ cons' = Some(r.cons)
        /\ rets' = Append(rets, r.ret)
    /\ UNCHANGED <<input, size, build, pc, panic, flavor, backing, rest, runs>>

Next == CallFunction \/ CallMethod \/ CallNext

Spec == Init /\ [][Next]_vars

\* ------------------------------------------------------------------ run grouping

WindowingIdle ==
    /\ input = [script |-> <<>>, cursor |-> 0]
    /\ size = 1
    /\ build = "release"
    /\ panic = ""
    /\ flavor = ""
    /\ cons = None
    /\ rets = <<>>

RECURSIVE ScanRun(_, _, _)
\* Scan forward while the next remaining element equals the anchor; the
\* result is the (exclusive) end of the run.
ScanRun(b, anchor, end) ==
    IF end < Len(b) /\ b[end + 1] = anchor
    THEN ScanRun(b, anchor, end + 1)
    ELSE end

Group_next_skipping(b, start) ==
    IF start >= Len(b)
    THEN [ret |-> None, rest |-> start]
    ELSE LET end == ScanRun(b, b[start + 1], start + 1) IN
         [ret |-> Some([from |-> start, to |-> end]), rest |-> end + 1]

\* The production step of the run-grouping adapter: the run is a view
\* [from, to) into the backing slice b, start is where the remaining range
\* begins.
Group_next(b, start) ==
    IF start >= Len(b)
    THEN [ret |-> None, rest |-> start]
    ELSE LET end == ScanRun(b, b[start + 1], start + 1) IN
         [ret |-> Some([from |-> start, to |-> end]), rest |-> end]

InitGroup ==
    /\ WindowingIdle
    /\ pc = "group"
    /\ backing \in SeqsUpTo(Vals, MaxGroupLen)
    /\ rest = 0
    /\ runs = <<>>

\* g.next()
GroupCallNext ==
    /\ pc = "group"
    /\ Len(runs) < MaxGroupLen + 2
    /\ LET r == Group_next(backing, rest) IN
        /\ runs' = Append(runs, r.ret)
        /\ rest' = r.rest
    /\ UNCHANGED <<input, size, build, pc, panic, flavor, cons, rets, backing>>

NextGroup == GroupCallNext

SpecGroup == InitGroup /\ [][NextGroup]_vars

\* ------------------------------------------------------------------ properties

Unwrapped(s) == [i \in 1..Len(s) |-> Unwrap(s[i])]

\* The items a script yields, in order (its exhaustion signals left out).
Items(script) == Unwrapped(SelectSeq(script, IsSome))

\* The windows returned so far, in order.
Windows == Unwrapped(SelectSeq(rets, IsSome))

RECURSIVE LeadLen(_)
\* How many items a script yields before it first signals exhaustion.
LeadLen(script) ==
    IF script = <<>> \/ ~IsSome(Head(script)) THEN 0
    ELSE 1 + LeadLen(Tail(script))

Fused(script) == LeadLen(script) = Len(script)

Max(a, b) == IF a >= b THEN a ELSE b

TheCons == Unwrap(cons)
Active == pc = "ready" /\ IsSome(TheCons.prevs)

\* The items the adapter's iterator has yielded so far.
Pulled == Items(SubSeq(input.script, 1, TheCons.iter.cursor))

\* The calls of next() made before the first one that signalled exhaustion.
FirstExhaustion == CHOOSE i \in 1..Len(rets) :
    /\ rets[i] = None
    /\ \A j \in 1..(i - 1) : rets[j] # None

\* C1: for every source and window size N >= 1, the i-th window returned is
\* exactly the N consecutive source items starting at the i-th, in order.
C1_WindowsAreConsecutive ==
    (pc = "ready" /\ size >= 1) =>
        \A i \in 1..Len(Windows) :
            /\ i + size - 1 <= Len(Items(input.script))
            /\ Windows[i] = SubSeq(Items(input.script), i, i + size - 1)

\* C1 for window sizes of at least 2 (what the code does satisfy).
C1_WindowsAreConsecutiveFrom2 ==
    (pc = "ready" /\ size >= 2) =>
        \A i \in 1..Len(Windows) :
            /\ i + size - 1 <= Len(Items(input.script))
            /\ Windows[i] = SubSeq(Items(input.script), i, i + size - 1)

\* C2: for every window size N >= 1, the calls of next() up to the first
\* exhaustion signal return exactly max(0, len - N + 1) windows, len being the
\* number of items the source yields before it signals exhaustion.
C2_WindowCount ==
    (pc = "ready" /\ size >= 1 /\ \E i \in 1..Len(rets) : rets[i] = None) =>
        FirstExhaustion - 1 = Max(0, LeadLen(input.script) - size + 1)

C2_Witness ==
    /\ pc = "ready" /\ size = 2
    /\ Fused(input.script) /\ Len(input.script) = 4
    /\ Len(rets) = 4 /\ rets[4] = None /\ Len(Windows) = 3

\* C3: every window returned has length exactly N, for every N >= 1.
C3_WindowLength ==
    (pc = "ready" /\ size >= 1) =>
        \A i \in 1..Len(Windows) : Len(Windows[i]) = size

\* C3 for window sizes of at least 2 (what the code does satisfy).
C3_WindowLengthFrom2 ==
    (pc = "ready" /\ size >= 2) =>
        \A i \in 1..Len(Windows) : Len(Windows[i]) = size

\* C4: construction with window size 0 fails at construction: it panics, no
\* adapter is returned and no window is ever produced.
C4_ZeroSizeFailsFast ==
    (size = 0 /\ pc # "start") =>
        /\ pc = "panicked"
        /\ panic # ""
        /\ cons = None
        /\ rets = <<>>

C4_Witness ==
    /\ size = 0 /\ pc = "panicked" /\ build = "release"
    /\ Len(Items(input.script)) >= 2

\* C5: once next() on an active adapter has returned the exhaustion signal,
\* every later next() returns it too, even for a source that is not fused.
C5_ExhaustionIsPermanent ==
    (pc = "ready") =>
        \A i, j \in 1..Len(rets) :
            (i < j /\ rets[i] = None) => rets[j] = None

\* C5 for fused sources (what the code does satisfy).
C5_ExhaustionIsPermanentIfFused ==
    (pc = "ready" /\ Fused(input.script)) =>
        \A i, j \in 1..Len(rets) :
            (i < j /\ rets[i] = None) => rets[j] = None

\* C6: if the source signals exhaustion during construction before N-1 items
\* are collected, every next() returns the exhaustion signal and the source is
\* never polled again, whatever it would still yield.
C6_UnderfilledIsExhausted ==
    (pc = "ready" /\ size >= 1 /\ LeadLen(input.script) < size - 1) =>
        /\ TheCons.prevs = None
        /\ \A i \in 1..Len(rets) : rets[i] = None
        /\ TheCons.iter.cursor =
               IF LeadLen(input.script) < Len(input.script)
               THEN LeadLen(input.script) + 1
               ELSE LeadLen(input.script)

C6_Witness ==
    /\ pc = "ready" /\ size = 3
    /\ LeadLen(input.script) = 1
    /\ Len(Items(input.script)) = 3
    /\ Len(rets) >= 2

\* C7: for a source with at least N-1 items, construction pulls exactly N-1
\* items and each next() that returns a window pulls exactly one more: after
\* k windows the source has yielded exactly (N-1) + k items, the first ones
\* of the source in order.
C7_ItemsPulled ==
    (Active /\ size >= 1) =>
        /\ Len(Pulled) = (size - 1) + Len(Windows)
        /\ Pulled = SubSeq(Items(input.script), 1, (size - 1) + Len(Windows))
        /\ rets = <<>> => TheCons.iter.cursor = size - 1

C7_Witness ==
    /\ Active /\ size = 2
    /\ Len(Windows) = 2 /\ Len(Pulled) = 3
    /\ Len(Items(input.script)) = 4

RECURSIVE Replay(_, _, _)
\* The adapter c and its returns after the calls of next() that gave rets
\* beyond the first k of them.
Replay(c, out, k) ==
    IF k = 0 THEN [cons |-> c, rets |-> out]
    ELSE LET r == Cons_next(c) IN Replay(r.cons, Append(out, r.ret), k - 1)

OtherFlavor ==
    IF flavor = "function"
    THEN ConsIterator_each_cons(input, size)
    ELSE each_cons(size, input)

\* C8: each_cons(N, iter) and iter.each_cons(N) behave identically: built by
\* one of them, the adapter is in the state, and has returned the windows and
\* exhaustion signals, that the other gives on the same source and size.
C8_FlavorsAgree ==
    (pc # "start") =>
        /\ panic = OtherFlavor.panic
        /\ (pc = "panicked") = (OtherFlavor.cons = None)
        /\ pc = "ready" =>
              LET o == Replay(Unwrap(OtherFlavor.cons), <<>>, Len(rets)) IN
              /\ o.cons = TheCons
              /\ o.rets = rets

C8_Witness ==
    /\ pc = "ready" /\ flavor = "method" /\ size = 2
    /\ Len(Windows) >= 2 /\ Len(rets) > Len(Windows)

\* C10: while the adapter is active, for every N >= 1 the pending buffer holds
\* exactly N-1 elements, the N-1 most recently pulled source items in order.
C10_PendingBuffer ==
    (Active /\ size >= 1) =>
        LET p == Unwrap(TheCons.prevs) IN
        /\ Len(p) = size - 1
        /\ Len(Pulled) >= size - 1
        /\ p = SubSeq(Pulled, Len(Pulled) - (size - 1) + 1, Len(Pulled))

\* C10 for window sizes of at least 2 (what the code does satisfy).
C10_PendingBufferFrom2 ==
    (Active /\ size >= 2) =>
        LET p == Unwrap(TheCons.prevs) IN
        /\ Len(p) = size - 1
        /\ Len(Pulled) >= size - 1
        /\ p = SubSeq(Pulled, Len(Pulled) - (size - 1) + 1, Len(Pulled))

\* The runs returned so far, in order, as views into the backing slice.
Runs == Unwrapped(SelectSeq(runs, IsSome))

View(v) == SubSeq(backing, v.from + 1, v.to)

RECURSIVE Concat(_)
Concat(vs) == IF vs = <<>> THEN <<>> ELSE View(Head(vs)) \o Concat(Tail(vs))

\* C9: the runs partition the input exactly: each run is non-empty and starts
\* where the one before ended (no gap, no overlap), the remaining range starts
\* where the last run ended, the runs returned so far concatenate to the part
\* of the input consumed so far, and once exhaustion is signalled they
\* concatenate to the whole input (empty input: no run).
C9_RunsPartition ==
    (pc = "group") =>
        /\ \A i \in 1..Len(Runs) :
              /\ Runs[i].from < Runs[i].to
              /\ Runs[i].to <= Len(backing)
              /\ Runs[i].from = IF i = 1 THEN 0 ELSE Runs[i - 1].to
        /\ rest = IF Runs = <<>> THEN 0 ELSE Runs[Len(Runs)].to
        /\ Concat(Runs) = SubSeq(backing, 1, rest)
        /\ (\E i \in 1..Len(runs) : runs[i] = None) => Concat(Runs) = backing
        /\ backing = <<>> => Runs = <<>>

C9_Witness ==
    /\ pc = "group"
    /\ backing = <<1, 1, 2, 2, 1>>
    /\ Len(Runs) = 3
    /\ Len(runs) = 4

====
